---- MODULE Spec2Model ----
(***************************************************************************)
(* A model of the decision / execution core of the ai-hedge-fund           *)
(* repository:                                                             *)
(*   - execution_agent            (src/src/agents/execution_agent.py)      *)
(*   - generate_trading_decision  (src/src/agents/portfolio_manager.py)    *)
(*   - calculate_signal_confidence (src/src/agents/portfolio_manager.py)   *)
(*   - risk_management_agent      (src/src/agents/risk_manager.py)         *)
(*   - run_hedge_fund             (src/src/main.py)                        *)
(*   - Backtester.execute_trade   (src/src/backtester.py)                  *)
(*   - generate_buffett_output    (src/src/agents/warren_buffett.py)       *)
(*                                                                         *)
(* Money is counted in cents (integers); a price of 10000 is 100.00.       *)
(* Python's None is the value NoneVal where a number is expected and the   *)
(* record NoOrder where an order is expected.  A Python dict keyed by      *)
(* ticker is a TLA+ function whose DOMAIN is the set of keys.              *)
(***************************************************************************)
EXTENDS Integers, Sequences, FiniteSets, TLC

VARIABLES
    pc,                 \* control location of the code being run
    execute_trades,     \* state["data"]["execute_trades"] / run_hedge_fund's parameter
    trading_decisions,  \* state["data"]["trading_decisions"]: ticker -> PortfolioDecision
    execution_results,  \* execution_agent's execution_results: ticker -> result
    has_execution_results, \* whether state["data"] holds the key "execution_results"
    exec_i,             \* position of execution_agent's loop in trading_decisions.items()
    submitted,          \* the broker's log: every submit_order call, in order, with its outcome
    st_tickers,         \* state["data"]["tickers"]
    portfolio,          \* state["data"]["portfolio"]
    current_prices,     \* portfolio_management_agent's current_prices: ticker -> price
    max_shares,         \* portfolio_management_agent's max_shares: ticker -> shares
    signals_by_ticker,  \* portfolio_management_agent's signals_by_ticker: ticker -> agent -> signal
    analysis_by_ticker, \* generate_trading_decision's analysis_by_ticker, as put into the prompt
    csc_signals,        \* calculate_signal_confidence's argument signals: agent -> signal
    csc_result,         \* calculate_signal_confidence's return value
    raised,             \* the text of the exception that left the code being run, "" if none
    bt_portfolio,       \* Backtester.portfolio
    bt_last,            \* the last execute_trade call: its arguments, its result, the state before it
    bt_calls,           \* number of execute_trade calls made
    tickers,            \* run_hedge_fund's tickers
    fund_portfolio,     \* run_hedge_fund's portfolio, the caller's
    fund_i,             \* position of run_hedge_fund's loop in tickers
    combined_decisions, \* run_hedge_fund's combined_decisions
    combined_signals,   \* run_hedge_fund's combined_signals
    combined_executions, \* run_hedge_fund's combined_executions
    successful_tickers, \* run_hedge_fund's successful_tickers
    failed_tickers,     \* run_hedge_fund's failed_tickers: ticker -> error text
    analyst_signals,    \* state["data"]["analyst_signals"]: agent -> ticker -> signal
    cycle_envelopes,    \* history: the risk envelope each ticker of the cycle was decided under
    buffett_analysis,   \* warren_buffett_agent's buffett_analysis: ticker -> signal
    buffett_i,          \* position of warren_buffett_agent's loop in tickers
    attempt,            \* generate_buffett_output's attempt; max_retries once the loop is exhausted
    llm_invocations     \* number of llm.invoke calls of the current generate_buffett_output call

execVars == <<trading_decisions, execution_results, has_execution_results, exec_i, submitted>>

pmVars == <<st_tickers, portfolio, current_prices, max_shares, signals_by_ticker,
            analysis_by_ticker, csc_signals, csc_result>>

btVars == <<bt_portfolio, bt_last, bt_calls>>

fundVars == <<tickers, fund_portfolio, fund_i, combined_decisions, combined_signals,
              combined_executions, successful_tickers, failed_tickers, analyst_signals,
              cycle_envelopes>>

buffettVars == <<buffett_analysis, buffett_i, attempt, llm_invocations>>

vars == <<pc, execute_trades, raised, execVars, pmVars, btVars, fundVars, buffettVars>>

----------------------------------------------------------------------------
(* Bounds and input sets *)

\* Number of tickers of a cycle.
NumTickers == 3

\* Largest share quantity the oracle or a caller may name.
MaxQty == 3

AllTickers == <<"AAPL", "MSFT", "NVDA", "TSLA", "AMZN", "GOOGL", "META">>

\* The order in which a dict keyed by ticker is iterated.
TickerOrder == SubSeq(AllTickers, 1, NumTickers)

Tickers == {TickerOrder[i] : i \in 1..Len(TickerOrder)}

NoneVal == -1

NoOrder == [repr |-> "none"]

EmptyMap == <<>>

\* Prices in cents.  None of them ends in 50 cents, so that price * 0.99 and
\* price * 1.01 are never halfway between two cents.
Prices == {0, 333, 10000}

----------------------------------------------------------------------------
(* Dict helpers *)

\* d[k] = v, as Python's item assignment on a dict.
Put(d, k, v) == [x \in (DOMAIN d) \cup {k} |-> IF x = k THEN v ELSE d[x]]

\* d.update(e)
Update(d, e) == [x \in (DOMAIN d) \cup (DOMAIN e) |-> IF x \in DOMAIN e THEN e[x] ELSE d[x]]

\* The keys of d in iteration order.
Keys(d) == SelectSeq(AllTickers, LAMBDA t : t \in DOMAIN d)

----------------------------------------------------------------------------
(* Exact fractions <<numerator, denominator>>, denominator > 0, in lowest   *)
(* terms: the values of Backtester.portfolio["cost_basis"] and              *)
(* ["realized_gains"], which the code divides.                              *)

Abs(x) == IF x < 0 THEN -x ELSE x

RECURSIVE GCD(_, _)
GCD(a, b) == IF b = 0 THEN a ELSE GCD(b, a % b)

Frac(n, d) ==
    LET g == GCD(Abs(n), Abs(d))
        sgn == IF d < 0 THEN -1 ELSE 1
    IN  IF n = 0 THEN <<0, 1>> ELSE <<sgn * (n \div g), sgn * (d \div g)>>

FracAdd(x, y) == Frac(x[1] * y[2] + y[1] * x[2], x[2] * y[2])

FracMul(x, y) == Frac(x[1] * y[1], x[2] * y[2])

FracOfInt(n) == <<n, 1>>

FracLess(x, y) == x[1] * y[2] < y[1] * x[2]

FracMin(x, y) == IF FracLess(y, x) THEN y ELSE x

\* int(x): the integer part of a fraction, rounded toward zero.
FracInt(x) == IF x[1] >= 0 THEN x[1] \div x[2] ELSE -((-x[1]) \div x[2])

RECURSIVE SumOver(_, _)
SumOver(f, S) ==
    IF S = {} THEN 0
    ELSE LET k == CHOOSE k \in S : TRUE IN f[k] + SumOver(f, S \ {k})

\* The state of the variables of run_hedge_fund in a run that does not use it.
FundIdle ==
    /\ tickers = <<>>
    /\ fund_portfolio = [cash |-> 0]
    /\ fund_i = 1
    /\ combined_decisions = <<>>
    /\ combined_signals = <<>>
    /\ combined_executions = <<>>
    /\ successful_tickers = <<>>
    /\ failed_tickers = <<>>
    /\ analyst_signals = <<>>
    /\ cycle_envelopes = <<>>

\* The state of the variables of Backtester in a run that does not use it.
BtIdle ==
    /\ bt_portfolio = [cash |-> 0]
    /\ bt_last = [action |-> "none"]
    /\ bt_calls = 0

\* The state of the variables of warren_buffett_agent in a run that does not
\* use it.
BuffettIdle ==
    /\ buffett_analysis = <<>>
    /\ buffett_i = 1
    /\ attempt = 0
    /\ llm_invocations = 0

\* The state of the variables of calculate_signal_confidence in a run that
\* does not call it on its own.
CscIdle ==
    /\ csc_signals = <<>>
    /\ csc_result = [direction |-> "none"]

----------------------------------------------------------------------------
(* execution_agent *)

\* An AlpacaOrder.  repr tells a validated AlpacaOrder model object ("model")
\* from a plain dict stored in the field ("dict").
Order(repr, type, symbol, qty, side, limit_price) ==
    [repr |-> repr, type |-> type, symbol |-> symbol, qty |-> qty, side |-> side,
     time_in_force |-> "day", limit_price |-> limit_price]

Decision(action, quantity, confidence, order) ==
    [action |-> action, quantity |-> quantity, confidence |-> confidence, order |-> order]

\* Mutant of Eligible: a hold decision that carries an order is executed.
EligibleIgnoringHold(decision) == decision.order # NoOrder

\* Line 23: the loop skips a decision without an order, or with action hold.
Eligible(decision) == ~(decision.order = NoOrder \/ decision.action = "hold")

AttributeErrorText == "'dict' object has no attribute 'limit_price'"

TypeErrorText == "float() argument must be a string or a real number, not 'NoneType'"

\* Mutant of BuildRequest: a limit order without a price is sent as a market order.
BuildRequestDowngrading(order) ==
    IF order.repr = "dict"
    THEN [ok |-> FALSE, error |-> AttributeErrorText]
    ELSE [ok |-> TRUE,
          request |-> [symbol |-> order.symbol, qty |-> order.qty, side |-> order.side,
                       time_in_force |-> order.time_in_force,
                       type |-> IF order.type = "limit" /\ order.limit_price # NoneVal
                                THEN "limit" ELSE "market",
                       limit_price |-> IF order.type = "limit" THEN order.limit_price
                                       ELSE NoneVal]]

\* Lines 29-47: the order request built from decision.order, or the exception
\* raised while building it.  decision.order.limit_price is an attribute
\* access: on a dict it raises AttributeError.  round(float(x), 2) of a price
\* in whole cents is that price; float(None) raises TypeError.
BuildRequest(order) ==
    IF order.repr = "dict"
    THEN [ok |-> FALSE, error |-> AttributeErrorText]
    ELSE IF order.type = "market"
    THEN [ok |-> TRUE,
          request |-> [symbol |-> order.symbol, qty |-> order.qty, side |-> order.side,
                       time_in_force |-> order.time_in_force, type |-> "market",
                       limit_price |-> NoneVal]]
    ELSE IF order.limit_price = NoneVal
    THEN [ok |-> FALSE, error |-> TypeErrorText]
    ELSE [ok |-> TRUE,
          request |-> [symbol |-> order.symbol, qty |-> order.qty, side |-> order.side,
                       time_in_force |-> order.time_in_force, type |-> "limit",
                       limit_price |-> order.limit_price]]

\* What trading_client.submit_order may do with a request: return an order, or raise.
BrokerOutcomes(request) ==
    {[raises |-> FALSE, filled_qty |-> q, filled_avg_price |-> NoneVal, error |-> ""] :
        q \in {0, request.qty}}
    \cup {[raises |-> TRUE, filled_qty |-> 0, filled_avg_price |-> NoneVal, error |-> e] :
        e \in {"insufficient buying power", "invalid symbol"}}

\* Lines 51-56.
SuccessResult(id, outcome) ==
    [status |-> "success", order_id |-> id, filled_qty |-> outcome.filled_qty,
     filled_avg_price |-> outcome.filled_avg_price]

\* Lines 60-65.
FailedResult(error) == [status |-> "failed", error |-> error]

\* Mutant of AfterTicker: an exception for one ticker ends the loop.
AfterTickerAborting(i, n, failed) == IF failed THEN n + 1 ELSE i + 1

\* Lines 21, 25, 60-65: the loop goes on to the next ticker, also after the
\* inner except clause has recorded a failure.
AfterTicker(i, n, failed) == i + 1

\* Lines 10-18.
ExecEnter ==
    /\ pc = "exec_start"
    /\ IF ~execute_trades
       THEN /\ pc' = "end"
            /\ UNCHANGED <<execution_results, exec_i>>
       ELSE /\ pc' = "exec_loop"
            /\ execution_results' = EmptyMap
            /\ exec_i' = 1
    /\ UNCHANGED <<buffettVars, execute_trades, trading_decisions, has_execution_results, submitted>>
    /\ UNCHANGED <<raised, pmVars, btVars, fundVars>>

\* Lines 21-65: one iteration of the loop over trading_decisions.items().
ExecIterate ==
    /\ pc = "exec_loop"
    /\ exec_i <= Len(Keys(trading_decisions))
    /\ LET n == Len(Keys(trading_decisions))
           ticker == Keys(trading_decisions)[exec_i]
           decision == trading_decisions[ticker]
           built == BuildRequest(decision.order)
       IN  IF ~Eligible(decision)
           THEN /\ exec_i' = AfterTicker(exec_i, n, FALSE)
                /\ UNCHANGED <<execution_results, submitted>>
           ELSE IF ~built.ok
           THEN /\ execution_results' = Put(execution_results, ticker, FailedResult(built.error))
                /\ exec_i' = AfterTicker(exec_i, n, TRUE)
                /\ UNCHANGED submitted
           ELSE \E outcome \in BrokerOutcomes(built.request) :
                /\ submitted' = Append(submitted,
                       [ticker |-> ticker, request |-> built.request, outcome |-> outcome])
                /\ execution_results' = Put(execution_results, ticker,
                       IF outcome.raises THEN FailedResult(outcome.error)
                       ELSE SuccessResult(Len(submitted) + 1, outcome))
                /\ exec_i' = AfterTicker(exec_i, n, outcome.raises)
    /\ UNCHANGED <<buffettVars, pc, execute_trades, trading_decisions, has_execution_results>>
    /\ UNCHANGED <<raised, pmVars, btVars, fundVars>>

\* Lines 69-83: state["data"]["execution_results"] = execution_results.
ExecFinish ==
    /\ pc = "exec_loop"
    /\ exec_i > Len(Keys(trading_decisions))
    /\ has_execution_results' = TRUE
    /\ pc' = "end"
    /\ UNCHANGED <<buffettVars, execute_trades, trading_decisions, execution_results, exec_i, submitted>>
    /\ UNCHANGED <<raised, pmVars, btVars, fundVars>>

\* The orders a caller may hand to execution_agent for a ticker.
ExecOrders(ticker, side) ==
    {NoOrder,
     Order("model", "market", ticker, 1, side, NoneVal),
     Order("model", "limit", ticker, 1, side, 9900),
     Order("model", "limit", ticker, 1, side, NoneVal),
     Order("dict", "limit", ticker, 1, side, 9900)}

ExecDecisions(ticker) ==
    {Decision(a, IF a = "hold" THEN 0 ELSE 1, 75, o) :
        a \in {"buy", "hold"}, o \in ExecOrders(ticker, "buy")}
    \cup {Decision("sell", 1, 75, o) : o \in ExecOrders(ticker, "sell")}

ExecInputs ==
    UNION {[S -> UNION {ExecDecisions(t) : t \in S}] : S \in SUBSET Tickers}

InitExec ==
    /\ BuffettIdle
    /\ pc = "exec_start"
    /\ execute_trades \in BOOLEAN
    /\ trading_decisions \in {d \in ExecInputs : \A t \in DOMAIN d : d[t] \in ExecDecisions(t)}
    /\ execution_results = EmptyMap
    /\ has_execution_results = FALSE
    /\ exec_i = 1
    /\ submitted = <<>>
    /\ raised = ""
    /\ st_tickers = Keys(trading_decisions)
    /\ portfolio = [cash |-> 0, positions |-> EmptyMap]
    /\ current_prices = EmptyMap
    /\ max_shares = EmptyMap
    /\ signals_by_ticker = EmptyMap
    /\ analysis_by_ticker = EmptyMap
    /\ CscIdle
    /\ BtIdle
    /\ FundIdle

NextExec == ExecEnter \/ ExecIterate \/ ExecFinish

SpecExec == InitExec /\ [][NextExec]_vars

----------------------------------------------------------------------------
(* Properties of execution_agent *)

\* The number of submit_order calls made for ticker t.
SubmitCount(t) == Cardinality({k \in 1..Len(submitted) : submitted[k].ticker = t})

\* The tickers the loop has gone past.
ExecProcessed == {Keys(trading_decisions)[i] : i \in 1..(exec_i - 1)}

\* A decision with action != hold and a non-null order.
HasOrderToPlace(t) ==
    trading_decisions[t].action # "hold" /\ trading_decisions[t].order # NoOrder

\* An order from which lines 29-47 build a request without raising.
RequestCanBeBuilt(t) ==
    /\ trading_decisions[t].order.repr = "model"
    /\ \/ trading_decisions[t].order.type = "market"
       \/ trading_decisions[t].order.limit_price # NoneVal

\* C1: when submit_order raises for a ticker, that ticker's result is
\* {status: failed, error: str(exception)}; when it returns, the result is
\* the success record of that order; and once the loop has ended every
\* ticker with a non-hold decision and an order has its own result, and its
\* order was handed to the broker if a request could be built from it,
\* whatever happened to the tickers before it.
ExecFailureIsolated ==
    /\ \A k \in 1..Len(submitted) :
        /\ submitted[k].ticker \in DOMAIN execution_results
        /\ execution_results[submitted[k].ticker] =
             IF submitted[k].outcome.raises
             THEN [status |-> "failed", error |-> submitted[k].outcome.error]
             ELSE [status |-> "success", order_id |-> k,
                   filled_qty |-> submitted[k].outcome.filled_qty,
                   filled_avg_price |-> submitted[k].outcome.filled_avg_price]
    /\ (pc = "end" /\ execute_trades) =>
         \A t \in DOMAIN trading_decisions :
             HasOrderToPlace(t) =>
                 /\ t \in DOMAIN execution_results
                 /\ RequestCanBeBuilt(t) => SubmitCount(t) = 1

\* C1 witness: three tickers, the second one's submit_order raised, the
\* first and the third succeeded.
ExecSecondOfThreeFailed ==
    /\ pc = "end"
    /\ Len(submitted) = 3
    /\ DOMAIN execution_results = {submitted[k].ticker : k \in 1..3}
    /\ Cardinality(DOMAIN execution_results) = 3
    /\ execution_results[submitted[1].ticker].status = "success"
    /\ submitted[2].outcome.raises
    /\ execution_results[submitted[2].ticker] =
         [status |-> "failed", error |-> "insufficient buying power"]
    /\ execution_results[submitted[3].ticker].status = "success"

\* C6: a limit order whose limit_price is None is never handed to the
\* broker, neither as a limit order nor as a market order, and once the loop
\* has gone past its ticker the result is failed, with an error text.
LimitWithoutPriceNotSubmitted ==
    \A t \in DOMAIN trading_decisions :
        (/\ HasOrderToPlace(t)
         /\ trading_decisions[t].order.type = "limit"
         /\ trading_decisions[t].order.limit_price = NoneVal) =>
            /\ SubmitCount(t) = 0
            /\ t \in ExecProcessed =>
                 /\ t \in DOMAIN execution_results
                 /\ execution_results[t].status = "failed"
                 /\ execution_results[t].error # ""

\* C6 witness: the loop has gone past a model-object limit order without a price.
LimitWithoutPriceProcessed ==
    \E t \in DOMAIN trading_decisions :
        /\ HasOrderToPlace(t)
        /\ trading_decisions[t].order.repr = "model"
        /\ trading_decisions[t].order.type = "limit"
        /\ trading_decisions[t].order.limit_price = NoneVal
        /\ t \in ExecProcessed
        /\ execution_results[t].status = "failed"

\* C7 as stated: at the end of the cycle submit_order was called exactly once
\* for each ticker with a non-hold decision and an order, never for another,
\* and the results map has exactly the former as its keys.
SubmitExactlyOncePerOrder ==
    (pc = "end" /\ execute_trades) =>
        /\ \A t \in DOMAIN trading_decisions :
             SubmitCount(t) = IF HasOrderToPlace(t) THEN 1 ELSE 0
        /\ DOMAIN execution_results = {t \in DOMAIN trading_decisions : HasOrderToPlace(t)}

\* C7 amended: submit_order is called at most once per ticker and never for
\* a ticker whose decision is hold or has no order; at the end of the cycle
\* it was called exactly once for each ticker with a non-hold decision whose
\* order yields a request, not at all for one whose order does not, and the
\* results map has exactly the tickers with a non-hold decision and an order
\* as its keys.
SubmitAtMostOncePerOrder ==
    /\ \A k \in 1..Len(submitted) : submitted[k].ticker \in DOMAIN trading_decisions
    /\ \A t \in DOMAIN trading_decisions :
        /\ SubmitCount(t) <= 1
        /\ ~HasOrderToPlace(t) => SubmitCount(t) = 0 /\ t \notin DOMAIN execution_results
    /\ (pc = "end" /\ execute_trades) =>
        /\ \A t \in DOMAIN trading_decisions :
             SubmitCount(t) = IF HasOrderToPlace(t) /\ RequestCanBeBuilt(t) THEN 1 ELSE 0
        /\ DOMAIN execution_results = {t \in DOMAIN trading_decisions : HasOrderToPlace(t)}

\* C7 witness: a finished cycle with a hold decision carrying an order (not
\* submitted, no result), a submitted order whose broker call raised (not
\* retried) and an order for which no request could be built.
ExecCycleWithHoldFailureAndBadOrder ==
    /\ pc = "end" /\ execute_trades
    /\ \E t \in DOMAIN trading_decisions :
        /\ trading_decisions[t].action = "hold" /\ trading_decisions[t].order # NoOrder
        /\ t \notin DOMAIN execution_results
    /\ \E k \in 1..Len(submitted) : submitted[k].outcome.raises
    /\ \E t \in DOMAIN trading_decisions :
        HasOrderToPlace(t) /\ ~RequestCanBeBuilt(t) /\ execution_results[t].status = "failed"

----------------------------------------------------------------------------
(* calculate_signal_confidence *)

\* Largest number of producers of a bundle of signals.
MaxProducers == 2

\* The keys a bundle of signals may have: the five analyst nodes of the
\* workflow, an analyst under its display name, a producer without a base
\* weight, and the risk manager.
ProducerNames ==
    {"technical_analyst_agent", "fundamentals_agent", "sentiment_agent", "valuation_agent",
     "warren_buffett_agent", "Warren Buffett", "macro_agent", "risk_management_agent"}

\* A key as the sequence of its words and separators, on which the string
\* operations of the code are computed.
Tokens(name) ==
    CASE name = "technical_analyst_agent" -> <<"technical", "_", "analyst", "_", "agent">>
      [] name = "fundamentals_agent" -> <<"fundamentals", "_", "agent">>
      [] name = "sentiment_agent" -> <<"sentiment", "_", "agent">>
      [] name = "valuation_agent" -> <<"valuation", "_", "agent">>
      [] name = "warren_buffett_agent" -> <<"warren", "_", "buffett", "_", "agent">>
      [] name = "Warren Buffett" -> <<"Warren", " ", "Buffett">>
      [] name = "macro_agent" -> <<"macro", "_", "agent">>
      [] name = "risk_management_agent" -> <<"risk", "_", "management", "_", "agent">>

\* str.lower()
Lower(q) ==
    [i \in DOMAIN q |->
        CASE q[i] = "Warren" -> "warren" [] q[i] = "Buffett" -> "buffett" [] OTHER -> q[i]]

\* str.replace('_agent', '')
RECURSIVE RemoveAgentSuffix(_)
RemoveAgentSuffix(q) ==
    IF Len(q) = 0 THEN <<>>
    ELSE IF Len(q) >= 2 /\ q[1] = "_" /\ q[2] = "agent"
         THEN RemoveAgentSuffix(SubSeq(q, 3, Len(q)))
         ELSE <<q[1]>> \o RemoveAgentSuffix(Tail(q))

\* str.replace(from, to) for a word or separator.
ReplaceToken(q, from, to) == [i \in DOMAIN q |-> IF q[i] = from THEN to ELSE q[i]]

\* Lines 111-117, in hundredths.
BaseKeys ==
    {<<"fundamentals">>, <<"technical", "_", "analysis">>, <<"valuation">>,
     <<"warren", "_", "buffett">>, <<"sentiment">>}

base_weights ==
    [k \in BaseKeys |->
        CASE k = <<"fundamentals">> -> 24
          [] k = <<"technical", "_", "analysis">> -> 23
          [] k = <<"valuation">> -> 23
          [] k = <<"warren", "_", "buffett">> -> 15
          [] k = <<"sentiment">> -> 15]

\* Lines 126-128: the key under which a producer counts in total_weight.
NormalizedForTotal(name) ==
    ReplaceToken(RemoveAgentSuffix(Lower(Tokens(name))), "analyst", "analysis")

\* Lines 158-161: the key under which a producer's weight is looked up.
NormalizedType(name) == ReplaceToken(NormalizedForTotal(name), " ", "_")

\* Line 123.
ActiveAgents(signals) ==
    {k \in DOMAIN signals : Lower(Tokens(k)) # Tokens("risk_management_agent")}

\* Lines 126-128, in hundredths.
TotalWeight(signals) ==
    LET known == {k \in ActiveAgents(signals) : NormalizedForTotal(k) \in BaseKeys}
    IN  SumOver([k \in known |-> base_weights[NormalizedForTotal(k)]], known)

\* Mutant of Weights: the base weights are used as they are.
WeightsNotRenormalized(total_weight) == [k \in BaseKeys |-> Frac(base_weights[k], 100)]

\* Line 130.
Weights(total_weight) ==
    [k \in BaseKeys |->
        IF total_weight > 0 THEN Frac(base_weights[k], total_weight)
        ELSE Frac(base_weights[k], 100)]

\* Line 162: weights.get(normalized_type, 0)
WeightOf(signals, name) ==
    IF NormalizedType(name) \in BaseKeys
    THEN Weights(TotalWeight(signals))[NormalizedType(name)]
    ELSE <<0, 1>>

\* A confidence that is a string float() cannot parse.
NonNumericText == -2

\* Lines 147-152: float(signal_data.get('confidence', 0)); a missing value is
\* 0, a ValueError is caught and gives 0.0.
ParseConfidence(signal_data) ==
    IF "confidence" \notin DOMAIN signal_data THEN 0
    ELSE IF signal_data.confidence = NonNumericText THEN 0
    ELSE signal_data.confidence

\* Lines 147-152: float(None) raises TypeError, which the except clause
\* (ValueError, AttributeError) does not catch.
ConfidenceRaises(signal_data) ==
    "confidence" \in DOMAIN signal_data /\ signal_data.confidence = NoneVal

\* Line 155: direction and direction != 'NEUTRAL'
IsActiveSignal(signal_data) == signal_data.signal \notin {"", "neutral"}

RECURSIVE FracSumOver(_, _)
FracSumOver(f, S) ==
    IF S = {} THEN <<0, 1>>
    ELSE LET k == CHOOSE k \in S : TRUE IN FracAdd(f[k], FracSumOver(f, S \ {k}))

\* Lines 133-171: weighted_bullish (direction "bullish") and weighted_bearish.
WeightedTotal(signals, direction) ==
    LET voters == {k \in ActiveAgents(signals) : signals[k].signal = direction}
    IN  FracSumOver([k \in voters |->
                        FracMul(FracOfInt(ParseConfidence(signals[k])), WeightOf(signals, k))],
                    voters)

\* Mutant of DominantDirection: a tie goes to bearish.
DominantDirectionTieBearish(weighted_bullish, weighted_bearish) ==
    IF FracLess(weighted_bullish, weighted_bearish) \/ weighted_bullish = weighted_bearish
    THEN "bearish" ELSE "bullish"

\* Lines 182-187.
DominantDirection(weighted_bullish, weighted_bearish) ==
    IF FracLess(weighted_bullish, weighted_bearish) THEN "bearish" ELSE "bullish"

\* Mutant of ScaleByParticipation: the confidence is always scaled, by the
\* share of active signals among three.
ScaleByParticipationOfThree(confidence, active_signals, available_signals) ==
    IF active_signals < 3 THEN FracMul(confidence, Frac(active_signals, 3)) ELSE confidence

\* Lines 194-196.
ScaleByParticipation(confidence, active_signals, available_signals) ==
    IF active_signals < available_signals
    THEN FracMul(confidence, Frac(active_signals, available_signals))
    ELSE confidence

\* Lines 104-200.
CalculateSignalConfidence(signals) ==
    LET weighted_bullish == WeightedTotal(signals, "bullish")
        weighted_bearish == WeightedTotal(signals, "bearish")
        active_signals ==
            Cardinality({k \in ActiveAgents(signals) : IsActiveSignal(signals[k])})
        available_signals == Cardinality(ActiveAgents(signals))
        direction == DominantDirection(weighted_bullish, weighted_bearish)
        confidence == IF direction = "bearish" THEN weighted_bearish ELSE weighted_bullish
    IN  [confidence |-> ScaleByParticipation(confidence, active_signals, available_signals),
         direction |-> direction]

\* The confidences a producer may report.
SignalConfidences == {0, 40, 85}

\* What a producer may report for a ticker.
SignalData ==
    {[signal |-> s, confidence |-> c] : s \in {"bullish", "bearish", "neutral"},
                                        c \in SignalConfidences}

\* The bundles of signals calculate_signal_confidence is called with.
Bundles ==
    UNION {[S -> SignalData] : S \in {T \in SUBSET ProducerNames : Cardinality(T) <= MaxProducers}}

\* Lines 139-152: the loop parses the confidence of every active agent; the
\* call raises when one of them is None.
CscRaises(signals) == \E k \in ActiveAgents(signals) : ConfidenceRaises(signals[k])

\* A call of calculate_signal_confidence: it returns, or the TypeError leaves it.
CalculateSignalConfidenceCall ==
    /\ pc = "csc_call"
    /\ IF CscRaises(csc_signals)
       THEN /\ raised' = TypeErrorText
            /\ UNCHANGED csc_result
       ELSE /\ csc_result' = CalculateSignalConfidence(csc_signals)
            /\ UNCHANGED raised
    /\ pc' = "end"
    /\ UNCHANGED <<buffettVars, execute_trades, execVars, btVars, fundVars>>
    /\ UNCHANGED <<st_tickers, portfolio, current_prices, max_shares, signals_by_ticker,
                   analysis_by_ticker, csc_signals>>

InitConfidence ==
    /\ BuffettIdle
    /\ pc = "csc_call"
    /\ csc_signals \in Bundles
    /\ csc_result = [direction |-> "none"]
    /\ execute_trades = FALSE
    /\ trading_decisions = EmptyMap
    /\ execution_results = EmptyMap
    /\ has_execution_results = FALSE
    /\ exec_i = 1
    /\ submitted = <<>>
    /\ raised = ""
    /\ st_tickers = <<>>
    /\ portfolio = [cash |-> 0, positions |-> EmptyMap]
    /\ current_prices = EmptyMap
    /\ max_shares = EmptyMap
    /\ signals_by_ticker = EmptyMap
    /\ analysis_by_ticker = EmptyMap
    /\ BtIdle
    /\ FundIdle

NextConfidence == CalculateSignalConfidenceCall

SpecConfidence == InitConfidence /\ [][NextConfidence]_vars

\* Signals as a producer may word them: the three directions, an empty
\* string, another word.
RawSignals == {"bullish", "bearish", "neutral", "", "hold"}

\* A producer's entry as it may arrive: the confidence a number, a
\* non-numeric string, None, or missing.
RawSignalData ==
    {[signal |-> s, confidence |-> c] : s \in RawSignals, c \in {85, NonNumericText, NoneVal}}
    \cup {[signal |-> s] : s \in RawSignals}

RawNames == {"technical_analyst_agent", "valuation_agent", "macro_agent"}

RawBundles ==
    UNION {[S -> RawSignalData] : S \in {T \in SUBSET RawNames : Cardinality(T) <= MaxProducers}}

InitRaw ==
    /\ BuffettIdle
    /\ pc = "csc_call"
    /\ csc_signals \in RawBundles
    /\ csc_result = [direction |-> "none"]
    /\ execute_trades = FALSE
    /\ trading_decisions = EmptyMap
    /\ execution_results = EmptyMap
    /\ has_execution_results = FALSE
    /\ exec_i = 1
    /\ submitted = <<>>
    /\ raised = ""
    /\ st_tickers = <<>>
    /\ portfolio = [cash |-> 0, positions |-> EmptyMap]
    /\ current_prices = EmptyMap
    /\ max_shares = EmptyMap
    /\ signals_by_ticker = EmptyMap
    /\ analysis_by_ticker = EmptyMap
    /\ BtIdle
    /\ FundIdle

NextRaw == CalculateSignalConfidenceCall

SpecRaw == InitRaw /\ [][NextRaw]_vars

----------------------------------------------------------------------------
(* Properties of calculate_signal_confidence *)

\* calculate_signal_confidence has returned.
CscReturned == csc_result.direction # "none"

\* The signals of a bundle, the risk manager's entry left out.
PresentSignals == DOMAIN csc_signals \ {"risk_management_agent"}

\* The producers that have a base weight under their node names.
WeightedProducers ==
    {"technical_analyst_agent", "fundamentals_agent", "sentiment_agent", "valuation_agent",
     "warren_buffett_agent"}

\* The larger of the two weighted totals of the bundle.
DominantTotal ==
    IF FracLess(WeightedTotal(csc_signals, "bullish"), WeightedTotal(csc_signals, "bearish"))
    THEN WeightedTotal(csc_signals, "bearish")
    ELSE WeightedTotal(csc_signals, "bullish")

\* C17: the direction returned is bearish only when the weighted bearish
\* total is strictly greater than the weighted bullish total; on a tie it is
\* bullish, as for the technical analyst bullish at 85 against the valuation
\* analyst bearish at 85 (equal weights); a bundle of neutral signals only
\* gives confidence 0 and bullish.
BearishOnlyWhenStrictlyGreater ==
    CscReturned =>
        /\ csc_result.direction \in {"bullish", "bearish"}
        /\ csc_result.direction = "bearish" <=>
             FracLess(WeightedTotal(csc_signals, "bullish"), WeightedTotal(csc_signals, "bearish"))
        /\ WeightedTotal(csc_signals, "bullish") = WeightedTotal(csc_signals, "bearish") =>
             csc_result.direction = "bullish"
        /\ (DOMAIN csc_signals = {"technical_analyst_agent", "valuation_agent"}
            /\ csc_signals["technical_analyst_agent"] = [signal |-> "bullish", confidence |-> 85]
            /\ csc_signals["valuation_agent"] = [signal |-> "bearish", confidence |-> 85]) =>
             csc_result.direction = "bullish"
        /\ (\A k \in DOMAIN csc_signals : csc_signals[k].signal = "neutral") =>
             csc_result = [confidence |-> <<0, 1>>, direction |-> "bullish"]

\* C17 witness: the call has returned on a tie of two non-zero totals.
TieOfNonZeroTotals ==
    /\ CscReturned
    /\ DOMAIN csc_signals = {"technical_analyst_agent", "valuation_agent"}
    /\ csc_signals["technical_analyst_agent"] = [signal |-> "bullish", confidence |-> 85]
    /\ csc_signals["valuation_agent"] = [signal |-> "bearish", confidence |-> 85]
    /\ csc_result.direction = "bullish"

\* C18 as stated: for a bundle of a single producer with a non-neutral signal
\* of confidence C, the confidence returned is C.
SingleProducerKeepsConfidence ==
    CscReturned =>
        \A k \in DOMAIN csc_signals :
            (DOMAIN csc_signals = {k} /\ csc_signals[k].signal # "neutral") =>
                csc_result.confidence = <<csc_signals[k].confidence, 1>>

\* C18 as amended: for a bundle of a single producer that has a base weight,
\* with a bullish or bearish signal of confidence C, the confidence returned
\* is C and the direction is the producer's.
SingleWeightedProducerKeepsConfidence ==
    CscReturned =>
        \A k \in WeightedProducers :
            (DOMAIN csc_signals = {k} /\ csc_signals[k].signal \in {"bullish", "bearish"}) =>
                /\ Cardinality(PresentSignals) = 1
                /\ csc_result.confidence = <<csc_signals[k].confidence, 1>>
                /\ csc_signals[k].confidence > 0 => csc_result.direction = csc_signals[k].signal

\* C18 witness: the call has returned 85 for the sentiment analyst alone,
\* bearish at 85.
SingleSentimentBearish85 ==
    /\ CscReturned
    /\ DOMAIN csc_signals = {"sentiment_agent"}
    /\ csc_signals["sentiment_agent"] = [signal |-> "bearish", confidence |-> 85]
    /\ csc_result = [confidence |-> <<85, 1>>, direction |-> "bearish"]

\* C19 as stated: whenever a producer with a base weight is present, the
\* weights applied to the present producers sum to 1, and a producer without
\* a base weight (its name, lowercased, with "_agent" removed and "analyst"
\* replaced by "analysis", is not a key of base_weights) gets weight 0.
AppliedWeightsRenormalized ==
    CscReturned =>
        LET known == {k \in PresentSignals : NormalizedForTotal(k) \in BaseKeys}
        IN  /\ known # {} =>
                 FracSumOver([k \in PresentSignals |-> WeightOf(csc_signals, k)],
                             PresentSignals) = <<1, 1>>
            /\ \A k \in PresentSignals \ known : WeightOf(csc_signals, k) = <<0, 1>>

\* C20: with active the number of non-neutral signals and available the
\* number of all signals present, the confidence returned is the dominant
\* weighted total times active / available when active < available and the
\* dominant weighted total otherwise; the technical analyst bullish at 85
\* next to a neutral valuation analyst (equal weights, a weighted total of
\* 42.5) gives 21.25.
ParticipationScaling ==
    CscReturned =>
        LET active == Cardinality({k \in PresentSignals : csc_signals[k].signal # "neutral"})
            available == Cardinality(PresentSignals)
        IN  /\ active < available =>
                 csc_result.confidence = FracMul(DominantTotal, Frac(active, available))
            /\ active = available => csc_result.confidence = DominantTotal
            /\ (DOMAIN csc_signals = {"technical_analyst_agent", "valuation_agent"}
                /\ csc_signals["technical_analyst_agent"] = [signal |-> "bullish", confidence |-> 85]
                /\ csc_signals["valuation_agent"].signal = "neutral") =>
                 csc_result.confidence = <<85, 4>>

\* C20 witness: the call has returned 21.25 for the technical analyst bullish
\* at 85 next to a neutral valuation analyst.
HalfParticipation ==
    /\ CscReturned
    /\ DOMAIN csc_signals = {"technical_analyst_agent", "valuation_agent"}
    /\ csc_signals["technical_analyst_agent"] = [signal |-> "bullish", confidence |-> 85]
    /\ csc_signals["valuation_agent"].signal = "neutral"
    /\ csc_result = [confidence |-> <<85, 4>>, direction |-> "bullish"]

\* C21 as stated: a signal that is neutral, empty or not parsable as bullish
\* or bearish adds nothing to either total and is not counted among the
\* active signals, but is counted among the available ones: the confidence
\* returned is the dominant total scaled by the share of bullish and bearish
\* signals among all signals present.
UnparsableSignalsSkipped ==
    CscReturned =>
        LET directional ==
                Cardinality({k \in PresentSignals : csc_signals[k].signal \in {"bullish", "bearish"}})
            available == Cardinality(PresentSignals)
        IN  csc_result.confidence =
                IF directional < available
                THEN FracMul(DominantTotal, Frac(directional, available))
                ELSE DominantTotal

\* C22 as stated: calculate_signal_confidence never raises on a mapping of
\* signals; a confidence that is not numeric counts as 0.
NeverRaisesOnMalformedConfidence ==
    pc = "end" => (raised = "" /\ CscReturned)

\* C28 as stated: for confidences within 0..100 the confidence returned is
\* within 0..100.
ConfidenceWithinBounds ==
    (CscReturned /\ \A k \in DOMAIN csc_signals : csc_signals[k].confidence \in 0..100) =>
        /\ ~FracLess(csc_result.confidence, <<0, 1>>)
        /\ ~FracLess(<<100, 1>>, csc_result.confidence)

----------------------------------------------------------------------------
(* generate_trading_decision *)

\* Largest max_shares and largest held position of the inputs.
MaxShares == 2

Actions == {"buy", "sell", "hold"}

\* PortfolioDecision.quantity is an int without any constraint.
Quantities == -1..MaxQty

\* PortfolioDecision.confidence values the oracle may return.
Confidences == {0, 75, 79, 80, 95}

\* PortfolioDecision.order is an Optional[AlpacaOrder] field of the schema
\* the oracle fills in: it may leave it null or supply an order.
LlmOrders(ticker) == {NoOrder, Order("model", "market", ticker, 1, "buy", NoneVal)}

LlmDecisions(ticker) ==
    {Decision(a, q, c, o) :
        a \in Actions, q \in Quantities, c \in Confidences, o \in LlmOrders(ticker)}

\* What call_llm may return as PortfolioManagerOutput.decisions when asked
\* about the tickers asked: a decision for each of them, or for some of them.
LlmOutputs(asked) ==
    {d \in UNION {[S -> UNION {LlmDecisions(t) : t \in S}] : S \in SUBSET asked} :
        \A t \in DOMAIN d : d[t] \in LlmDecisions(t)}

\* current_prices.get(ticker, 0)
GetOrZero(d, k) == IF k \in DOMAIN d THEN d[k] ELSE 0

\* round(n / d) to the nearest integer, halves to the even one, for n >= 0, d > 0.
RoundHalfEven(n, d) ==
    LET q == n \div d
        r == n % d
    IN  IF 2 * r < d THEN q
        ELSE IF 2 * r > d THEN q + 1
        ELSE IF q % 2 = 0 THEN q ELSE q + 1

\* Mutant of OrderType: a confidence of exactly 80 gives a limit order.
OrderTypeStrict(confidence) == IF confidence > 80 THEN "market" ELSE "limit"

\* Line 317.
OrderType(confidence) == IF confidence >= 80 THEN "market" ELSE "limit"

\* Lines 330-333: round(current_price * 0.99, 2) for a buy, round(current_price * 1.01, 2)
\* otherwise, on prices in cents.
LimitPrice(action, current_price) ==
    IF action = "buy" THEN RoundHalfEven(current_price * 99, 100)
    ELSE RoundHalfEven(current_price * 101, 100)

\* Mutant of AttachedOrder: an order is attached to every decision, whatever
\* its action and quantity.
AttachedOrderForEveryDecision(ticker, decision, prices) ==
    Order("dict", OrderType(decision.confidence), ticker, decision.quantity,
          decision.action, NoneVal)

\* Lines 313-337: the value of decision.order after the loop body for one
\* ticker, in live mode.  The order is a plain dict assigned to the field; a
\* market order's dict has no limit_price key.
AttachedOrder(ticker, decision, prices) ==
    IF decision.action \in {"buy", "sell"} /\ decision.quantity > 0
    THEN Order("dict", OrderType(decision.confidence), ticker, decision.quantity,
               decision.action,
               IF OrderType(decision.confidence) = "limit"
               THEN LimitPrice(decision.action, GetOrZero(prices, ticker))
               ELSE NoneVal)
    ELSE NoOrder

\* Lines 299-341: the decisions returned, given the oracle's answer.
GenerateTradingDecision(llm, prices, live) ==
    IF live
    THEN [t \in DOMAIN llm |-> [llm[t] EXCEPT !.order = AttachedOrder(t, llm[t], prices)]]
    ELSE llm

\* Lines 220-236: the analysis of each ticker that has signals, as it is put
\* into the prompt.
AnalysisByTicker(signals_by, p, prices, shares) ==
    [t \in DOMAIN signals_by |->
        [confidence |-> CalculateSignalConfidence(signals_by[t]).confidence,
         direction |-> CalculateSignalConfidence(signals_by[t]).direction,
         current_position |-> GetOrZero(p.positions, t),
         current_price |-> prices[t],
         max_shares |-> shares[t]]]

\* The signals generate_trading_decision is called with for a ticker.
DecideBundles ==
    {EmptyMap,
     [a \in {"technical_analyst_agent"} |-> [signal |-> "bearish", confidence |-> 85]]}

\* Lines 343-346.
ValueErrorText == "Error generating trading decisions"

\* generate_trading_decision: the oracle answers.
GenerateTradingDecisionCall ==
    /\ pc = "gtd_call"
    /\ analysis_by_ticker' =
         AnalysisByTicker(signals_by_ticker, portfolio, current_prices, max_shares)
    /\ \E llm \in LlmOutputs(DOMAIN signals_by_ticker) :
        trading_decisions' = GenerateTradingDecision(llm, current_prices, execute_trades)
    /\ pc' = "end"
    /\ UNCHANGED <<buffettVars, execute_trades, raised, btVars, fundVars>>
    /\ UNCHANGED <<st_tickers, portfolio, current_prices, max_shares, signals_by_ticker,
                   csc_signals, csc_result>>
    /\ UNCHANGED <<execution_results, has_execution_results, exec_i, submitted>>

\* generate_trading_decision: the oracle, or anything else inside the try, raises.
GenerateTradingDecisionRaises ==
    /\ pc = "gtd_call"
    /\ raised' = ValueErrorText
    /\ pc' = "end"
    /\ UNCHANGED <<buffettVars, execute_trades, execVars, pmVars, btVars, fundVars>>

InitDecide ==
    /\ BuffettIdle
    /\ pc = "gtd_call"
    /\ execute_trades \in BOOLEAN
    /\ \E t \in Tickers :
        /\ st_tickers = <<t>>
        /\ current_prices \in [{t} -> Prices]
        /\ max_shares \in [{t} -> 0..MaxShares]
        /\ signals_by_ticker \in [{t} -> DecideBundles]
        /\ \E held \in [{t} -> 0..MaxShares] : portfolio = [cash |-> 100000, positions |-> held]
    /\ analysis_by_ticker = EmptyMap
    /\ CscIdle
    /\ trading_decisions = EmptyMap
    /\ execution_results = EmptyMap
    /\ has_execution_results = FALSE
    /\ exec_i = 1
    /\ submitted = <<>>
    /\ raised = ""
    /\ BtIdle
    /\ FundIdle

NextDecide == GenerateTradingDecisionCall \/ GenerateTradingDecisionRaises

SpecDecide == InitDecide /\ [][NextDecide]_vars

----------------------------------------------------------------------------
(* Properties of generate_trading_decision *)

\* C3 as stated: the quantity of a buy decision, and of the order attached
\* to it, never exceeds the ticker's max_shares.
BuyWithinMaxShares ==
    \A t \in DOMAIN trading_decisions :
        trading_decisions[t].action = "buy" =>
            /\ trading_decisions[t].quantity <= max_shares[t]
            /\ trading_decisions[t].order # NoOrder =>
                 trading_decisions[t].order.qty <= max_shares[t]

\* C4 as stated: with a long position, the quantity of a sell decision, and
\* of the order attached to it, never exceeds the shares held.
SellWithinCurrentShares ==
    \A t \in DOMAIN trading_decisions :
        (trading_decisions[t].action = "sell" /\ portfolio.positions[t] > 0) =>
            /\ trading_decisions[t].quantity <= portfolio.positions[t]
            /\ trading_decisions[t].order # NoOrder =>
                 trading_decisions[t].order.qty <= portfolio.positions[t]

\* C10 as stated: every decision has quantity >= 0, and quantity = 0 exactly
\* when its action is hold.
QuantityZeroIffHold ==
    \A t \in DOMAIN trading_decisions :
        /\ trading_decisions[t].quantity >= 0
        /\ trading_decisions[t].quantity = 0 <=> trading_decisions[t].action = "hold"

\* C9: in live mode the order attached to a buy or sell decision is a market
\* order when the decision's confidence is at least 80 and a limit order
\* below 80; a limit order carries a limit price, which is the cent nearest
\* to 99% of the current price for a buy and to 101% of it for a sell; a buy
\* with confidence 75 at 100.00 gets a limit order at 99.00.
LiveOrderTypeAndLimitPrice ==
    (pc = "end" /\ execute_trades) =>
        \A t \in DOMAIN trading_decisions :
            LET d == trading_decisions[t]
                o == trading_decisions[t].order
                price == current_prices[t]
            IN  (d.action \in {"buy", "sell"} /\ o # NoOrder) =>
                    /\ d.confidence >= 80 => o.type = "market"
                    /\ d.confidence < 80 => o.type = "limit"
                    /\ o.type = "limit" =>
                         /\ o.limit_price # NoneVal
                         /\ d.action = "buy" =>
                              (100 * o.limit_price - 99 * price) \in -49..49
                         /\ d.action = "sell" =>
                              (100 * o.limit_price - 101 * price) \in -49..49
                    /\ (d.action = "buy" /\ d.confidence = 75 /\ price = 10000) =>
                         (o.type = "limit" /\ o.limit_price = 9900)

\* C9 witness: live mode, a buy with confidence 75 at 100.00 has left
\* generate_trading_decision with a limit order at 99.00, or a buy with
\* confidence 80 with a market order.
LiveLimitBuyAt99 ==
    /\ pc = "end" /\ execute_trades
    /\ \E t \in DOMAIN trading_decisions :
        /\ trading_decisions[t].action = "buy"
        /\ trading_decisions[t].confidence = 75
        /\ current_prices[t] = 10000
        /\ trading_decisions[t].order # NoOrder
        /\ trading_decisions[t].order.type = "limit"
        /\ trading_decisions[t].order.limit_price = 9900

----------------------------------------------------------------------------
(* warren_buffett_agent and generate_buffett_output *)

max_retries == 3

\* BuffettSignal.signal: Literal["bullish", "bearish", "neutral"]
BuffettSignalLiterals == {"bullish", "bearish", "neutral"}

\* The signals the structured output of llm.invoke can hold.
BuffettSignals ==
    {[signal |-> s, confidence |-> c] : s \in BuffettSignalLiterals, c \in {0, 40, 85}}

\* Lines 349-353: the arguments of the default BuffettSignal.
DefaultBuffettArguments == [signal |-> "hold", confidence |-> 0]

\* pydantic's validation of the arguments of BuffettSignal(...).
ValidBuffettSignal(arguments) == arguments.signal \in BuffettSignalLiterals

ValidationErrorText == "1 validation error for BuffettSignal"

\* Lines 31, 100-110, 124: the loop over the tickers.  A ticker starts a call of
\* generate_buffett_output; after the last one the analysis is written to
\* analyst_signals.
BuffettLoop ==
    /\ pc = "buffett_loop"
    /\ IF buffett_i <= Len(st_tickers)
       THEN /\ attempt' = 0
            /\ llm_invocations' = 0
            /\ pc' = "gbo_invoke"
            /\ UNCHANGED analyst_signals
       ELSE /\ analyst_signals' = Put(analyst_signals, "warren_buffett_agent", buffett_analysis)
            /\ pc' = "end"
            /\ UNCHANGED <<attempt, llm_invocations>>
    /\ UNCHANGED <<buffett_analysis, buffett_i, execute_trades, raised, execVars, pmVars, btVars>>
    /\ UNCHANGED <<cycle_envelopes, tickers, fund_portfolio, fund_i, combined_decisions, combined_signals,
                   combined_executions, successful_tickers, failed_tickers>>

\* Lines 342-345: llm.invoke returns; its result is the value of
\* generate_buffett_output, stored at lines 101-108.
GenerateBuffettOutputReturns ==
    /\ pc = "gbo_invoke"
    /\ attempt < max_retries
    /\ \E result \in BuffettSignals :
           buffett_analysis' = Put(buffett_analysis, st_tickers[buffett_i], result)
    /\ llm_invocations' = llm_invocations + 1
    /\ buffett_i' = buffett_i + 1
    /\ pc' = "buffett_loop"
    /\ UNCHANGED <<attempt, execute_trades, raised, execVars, pmVars, btVars, fundVars>>

\* Lines 342-353: llm.invoke raises.  Before the last attempt the loop goes
\* on; on the last one the handler constructs the default BuffettSignal, and
\* the validation error of the construction leaves the function and the agent.
GenerateBuffettOutputAttemptRaises ==
    /\ pc = "gbo_invoke"
    /\ attempt < max_retries
    /\ llm_invocations' = llm_invocations + 1
    /\ IF attempt = max_retries - 1
       THEN /\ attempt' = max_retries
            /\ IF ValidBuffettSignal(DefaultBuffettArguments)
               THEN /\ buffett_analysis' =
                           Put(buffett_analysis, st_tickers[buffett_i], DefaultBuffettArguments)
                    /\ buffett_i' = buffett_i + 1
                    /\ pc' = "buffett_loop"
                    /\ UNCHANGED raised
               ELSE /\ raised' = ValidationErrorText
                    /\ pc' = "end"
                    /\ UNCHANGED <<buffett_analysis, buffett_i>>
       ELSE /\ attempt' = attempt + 1
            /\ UNCHANGED <<pc, raised, buffett_analysis, buffett_i>>
    /\ UNCHANGED <<execute_trades, execVars, pmVars, btVars, fundVars>>

InitBuffett ==
    /\ pc = "buffett_loop"
    /\ st_tickers \in {SubSeq(TickerOrder, 1, n) : n \in 0..NumTickers}
    /\ BuffettIdle
    /\ execute_trades = FALSE
    /\ trading_decisions = EmptyMap
    /\ execution_results = EmptyMap
    /\ has_execution_results = FALSE
    /\ exec_i = 1
    /\ submitted = <<>>
    /\ raised = ""
    /\ portfolio = [cash |-> 0, positions |-> EmptyMap]
    /\ current_prices = EmptyMap
    /\ max_shares = EmptyMap
    /\ signals_by_ticker = EmptyMap
    /\ analysis_by_ticker = EmptyMap
    /\ CscIdle
    /\ BtIdle
    /\ FundIdle

NextBuffett ==
    \/ BuffettLoop
    \/ GenerateBuffettOutputReturns
    \/ GenerateBuffettOutputAttemptRaises

SpecBuffett == InitBuffett /\ [][NextBuffett]_vars

----------------------------------------------------------------------------
(* Properties of generate_buffett_output *)

\* C27 as stated: generate_buffett_output invokes the LLM at most three
\* times, and when every attempt has raised it returns the default
\* BuffettSignal, of confidence 0, instead of raising.
DefaultSignalAfterThreeFailures ==
    /\ llm_invocations <= max_retries
    /\ attempt = max_retries =>
           /\ raised = ""
           /\ buffett_i > 1
           /\ buffett_analysis[st_tickers[buffett_i - 1]].confidence = 0

----------------------------------------------------------------------------
(* Backtester.execute_trade *)

\* Number of execute_trade calls of a run.
MaxTrades == 3

\* Largest quantity passed to execute_trade.
MaxTradeQty == 3

BtTickers == {AllTickers[1], AllTickers[2]}

BtPrices == {0, 2, 3}

BtInitialCapital == {0, 7}

\* Mutant of BuyQuantity: the whole quantity is bought, whatever the cash.
BuyQuantityUnchecked(cash, quantity, price) == quantity

\* backtester.py lines 224-226, 240-242: the shares a buy of quantity > 0
\* executes: all of them if cash covers the cost, else cash // current_price.
BuyQuantity(cash, quantity, price) ==
    IF quantity * price <= cash THEN quantity ELSE cash \div price

\* Lines 227-237 and 243-253: the portfolio after buying n shares of ticker.
AfterBuy(p, ticker, n, price) ==
    LET old_shares == p.positions[ticker]
        old_cost_basis == p.cost_basis[ticker]
        new_cost == n * price
        total_shares == old_shares + n
    IN  [p EXCEPT
            !.cost_basis[ticker] =
                IF total_shares > 0
                THEN FracMul(FracAdd(FracMul(old_cost_basis, FracOfInt(old_shares)),
                                     FracOfInt(new_cost * n)),
                             Frac(1, total_shares))
                ELSE old_cost_basis,
            !.positions[ticker] = old_shares + n,
            !.cash = p.cash - new_cost]

\* Mutant of SellQuantity: the whole quantity is sold, whatever is held.
SellQuantityUnclamped(held, quantity) == quantity

\* Line 258.
SellQuantity(held, quantity) == IF quantity < held THEN quantity ELSE held

\* Lines 260-271: the portfolio after selling n > 0 shares of ticker.  The
\* remaining ratio is computed from the position already reduced by n.
AfterSell(p, ticker, n, price) ==
    LET held == p.positions[ticker]
        avg_cost_per_share ==
            IF held > 0 THEN FracMul(p.cost_basis[ticker], Frac(1, held)) ELSE <<0, 1>>
        realized_gain ==
            FracMul(FracAdd(FracOfInt(price), FracMul(<<-1, 1>>, avg_cost_per_share)),
                    FracOfInt(n))
        left == held - n
    IN  [p EXCEPT
            !.realized_gains[ticker] = FracAdd(p.realized_gains[ticker], realized_gain),
            !.positions[ticker] = left,
            !.cash = p.cash + n * price,
            !.cost_basis[ticker] =
                IF left > 0
                THEN FracMul(p.cost_basis[ticker], Frac(left - n, left))
                ELSE <<0, 1>>]

\* Lines 222-275: execute_trade's return value and the portfolio it leaves.
ExecuteTradeResult(p, ticker, action, quantity, price) ==
    IF action = "buy" /\ quantity > 0
    THEN LET n == BuyQuantity(p.cash, quantity, price)
         IN  IF n > 0
             THEN [executed |-> n, portfolio |-> AfterBuy(p, ticker, n, price)]
             ELSE [executed |-> 0, portfolio |-> p]
    ELSE IF action = "sell" /\ quantity > 0
    THEN LET n == SellQuantity(p.positions[ticker], quantity)
         IN  IF n > 0
             THEN [executed |-> n, portfolio |-> AfterSell(p, ticker, n, price)]
             ELSE [executed |-> 0, portfolio |-> p]
    ELSE [executed |-> 0, portfolio |-> p]

\* One call of execute_trade.
ExecuteTrade ==
    /\ pc = "backtest"
    /\ bt_calls < MaxTrades
    /\ \E ticker \in BtTickers, action \in Actions,
          quantity \in -1..MaxTradeQty, price \in BtPrices :
        LET r == ExecuteTradeResult(bt_portfolio, ticker, action, quantity, price)
        IN  /\ bt_portfolio' = r.portfolio
            /\ bt_last' = [ticker |-> ticker, action |-> action, quantity |-> quantity,
                           price |-> price, executed |-> r.executed,
                           cash_before |-> bt_portfolio.cash,
                           shares_before |-> bt_portfolio.positions[ticker]]
    /\ bt_calls' = bt_calls + 1
    /\ UNCHANGED <<buffettVars, pc, execute_trades, raised, execVars, pmVars, fundVars>>

\* Backtester.__init__, lines 176-181.
InitBacktest ==
    /\ BuffettIdle
    /\ pc = "backtest"
    /\ \E capital \in BtInitialCapital :
        bt_portfolio = [cash |-> capital,
                        positions |-> [t \in BtTickers |-> 0],
                        realized_gains |-> [t \in BtTickers |-> <<0, 1>>],
                        cost_basis |-> [t \in BtTickers |-> <<0, 1>>]]
    /\ bt_last = [action |-> "none"]
    /\ bt_calls = 0
    /\ execute_trades = FALSE
    /\ raised = ""
    /\ trading_decisions = EmptyMap
    /\ execution_results = EmptyMap
    /\ has_execution_results = FALSE
    /\ exec_i = 1
    /\ submitted = <<>>
    /\ st_tickers = <<>>
    /\ portfolio = [cash |-> 0, positions |-> EmptyMap]
    /\ current_prices = EmptyMap
    /\ max_shares = EmptyMap
    /\ signals_by_ticker = EmptyMap
    /\ analysis_by_ticker = EmptyMap
    /\ CscIdle
    /\ FundIdle

NextBacktest == ExecuteTrade

SpecBacktest == InitBacktest /\ [][NextBacktest]_vars

----------------------------------------------------------------------------
(* Properties of Backtester.execute_trade *)

\* C5: after any sequence of execute_trade calls cash is >= 0; a buy whose
\* cost exceeds the cash executed floor(cash / price) shares (none when that
\* is 0) and paid exactly for them; a sell did not reduce cash.
CashNeverNegative ==
    /\ bt_portfolio.cash >= 0
    /\ bt_calls > 0 =>
        /\ (/\ bt_last.action = "buy"
            /\ bt_last.quantity > 0
            /\ bt_last.quantity * bt_last.price > bt_last.cash_before) =>
               /\ bt_last.executed * bt_last.price <= bt_last.cash_before
               /\ (bt_last.executed + 1) * bt_last.price > bt_last.cash_before
               /\ bt_portfolio.cash = bt_last.cash_before - bt_last.executed * bt_last.price
        /\ bt_last.action = "sell" => bt_portfolio.cash >= bt_last.cash_before

\* C5 witness: a buy of 3 shares at 3 with 7 in cash was clipped to 2 shares.
BuyClippedToCash ==
    /\ bt_calls > 0
    /\ bt_last.action = "buy" /\ bt_last.quantity = 3 /\ bt_last.price = 3
    /\ bt_last.cash_before = 7
    /\ bt_last.executed = 2
    /\ bt_portfolio.cash = 1

\* The part of C4 about simulation: the trade executed for a sell is never
\* larger than the shares held before it.
SimulatedSellWithinShares ==
    (bt_calls > 0 /\ bt_last.action = "sell") =>
        /\ bt_last.executed <= bt_last.shares_before
        /\ bt_last.executed <= bt_last.quantity \/ bt_last.executed = 0

\* The cost basis of every ticker is >= 0, and 0 for a ticker of which no
\* share is held.
CostBasisOfSharesHeld ==
    \A t \in BtTickers :
        /\ ~FracLess(bt_portfolio.cost_basis[t], <<0, 1>>)
        /\ bt_portfolio.positions[t] = 0 => bt_portfolio.cost_basis[t] = <<0, 1>>

\* An execute_trade call adds executed * price to the cost basis of the
\* ticker on a buy and removes the fraction sold on a sell.
CostBasisStep ==
    LET t == bt_last'.ticker
        n == bt_last'.executed
        held == bt_portfolio.positions[t]
        before == bt_portfolio.cost_basis[t]
        after == bt_portfolio'.cost_basis[t]
    IN  bt_calls' = bt_calls + 1 =>
            /\ (bt_last'.action = "buy" /\ n > 0) =>
                   after = FracAdd(before, FracOfInt(n * bt_last'.price))
            /\ (bt_last'.action = "sell" /\ n > 0) =>
                   after = FracMul(before, Frac(held - n, held))

\* C24 as stated: after any sequence of execute_trade calls the cost basis of
\* a ticker is the cumulative cost of the shares still held: a buy adds
\* quantity * price, a sell removes the sold fraction pro rata; it is never
\* negative and is 0 when no share is held.
CostBasisIsCumulativeCost == []CostBasisOfSharesHeld /\ [][CostBasisStep]_vars

\* No position is negative.
PositionsNonNegative == \A t \in BtTickers : bt_portfolio.positions[t] >= 0

\* A sell of a ticker of which no share is held executes 0 shares and leaves
\* the portfolio as it is.
SellWithoutPositionStep ==
    (/\ bt_calls' = bt_calls + 1
     /\ bt_last'.action = "sell"
     /\ bt_portfolio.positions[bt_last'.ticker] <= 0) =>
        /\ bt_last'.executed = 0
        /\ bt_portfolio' = bt_portfolio

\* C29: after any sequence of execute_trade calls positions[ticker] >= 0 for
\* every ticker; a sell for a ticker with no long position executes 0 shares
\* and leaves cash, positions, cost_basis and realized_gains unchanged.
NoShortInSimulation == []PositionsNonNegative /\ [][SellWithoutPositionStep]_vars

\* A sell of a positive quantity was asked of a ticker of which no share was
\* held, and executed nothing.
SellAskedWithoutPosition ==
    /\ bt_last.action = "sell"
    /\ bt_last.quantity > 0
    /\ bt_last.shares_before = 0
    /\ bt_last.executed = 0
    /\ bt_portfolio.cash > 0

----------------------------------------------------------------------------
(* risk_management_agent and portfolio_management_agent *)

\* portfolio.get("cost_basis", {})
CostBasisOf(p) == IF "cost_basis" \in DOMAIN p THEN p.cost_basis ELSE EmptyMap

\* portfolio.get("buying_power", portfolio.get("cash", 0))
BuyingPowerOf(p) == IF "buying_power" \in DOMAIN p THEN p.buying_power ELSE p.cash

\* Mutant of MaxPosition: the buying power is not looked at.
MaxPositionWithoutBuyingPower(p, live) ==
    Frac((p.cash + SumOver(CostBasisOf(p), DOMAIN CostBasisOf(p))) * 20, 100)

\* risk_manager.py lines 40-53: the position limit in dollars.
MaxPosition(p, live) ==
    LET total_portfolio_value == p.cash + SumOver(CostBasisOf(p), DOMAIN CostBasisOf(p))
    IN  IF live
        THEN FracMin(Frac(total_portfolio_value * 20, 100), Frac(BuyingPowerOf(p) * 95, 100))
        ELSE Frac(total_portfolio_value * 20, 100)

\* Lines 55-56.
MaxPositionSize(p, ticker, live) ==
    FracMin(FracAdd(MaxPosition(p, live), FracOfInt(-GetOrZero(CostBasisOf(p), ticker))),
            FracOfInt(p.cash))

\* int(limit / price) if price > 0 else 0 (risk_manager.py line 61,
\* portfolio_manager.py lines 52-55).
SharesFor(limit, price) ==
    IF price > 0 THEN FracInt(FracMul(limit, Frac(1, price))) ELSE 0

\* Lines 58-70: the entry of risk_analysis for a ticker with price data.
RiskEnvelope(p, ticker, price, live) ==
    [remaining_position_limit |-> MaxPositionSize(p, ticker, live),
     current_price |-> price,
     max_shares |-> SharesFor(MaxPositionSize(p, ticker, live), price)]

\* Lines 21-76: risk_analysis, given the last close of the tickers that have
\* price data; a ticker without price data is left out.
RiskAnalysis(p, closes, live) == [t \in DOMAIN closes |-> RiskEnvelope(p, t, closes[t], live)]

\* analyst_signals.get("risk_management_agent", {}).get(ticker, {})
RiskData(signals, ticker) ==
    IF "risk_management_agent" \in DOMAIN signals
       /\ ticker \in DOMAIN signals["risk_management_agent"]
    THEN signals["risk_management_agent"][ticker]
    ELSE [remaining_position_limit |-> <<0, 1>>, current_price |-> 0]

SeqToSet(q) == {q[i] : i \in 1..Len(q)}

\* portfolio_manager.py lines 46-55.
PmCurrentPrices(signals, asked) ==
    [t \in SeqToSet(asked) |-> RiskData(signals, t).current_price]

PmMaxShares(signals, asked) ==
    [t \in SeqToSet(asked) |->
        SharesFor(RiskData(signals, t).remaining_position_limit,
                  RiskData(signals, t).current_price)]

\* Lines 57-64: the analysts' signals on each ticker, the risk manager's left out.
PmSignalsByTicker(signals, asked) ==
    [t \in SeqToSet(asked) |->
        [a \in {a \in DOMAIN signals : a # "risk_management_agent" /\ t \in DOMAIN signals[a]} |->
            [signal |-> signals[a][t].signal, confidence |-> signals[a][t].confidence]]]

----------------------------------------------------------------------------
(* run_hedge_fund *)

\* Largest number of tickers of one run_hedge_fund call.
MaxCycleTickers == 2

\* The analyst nodes of the workflow (create_workflow, lines 191-203).
SelectedAgents == {"technical_analyst_agent"}

\* What an analyst may report for a ticker.
AnalystSignals ==
    {[signal |-> "bullish", confidence |-> 85], [signal |-> "neutral", confidence |-> 0]}

\* The oracle's decisions the cycle is run with.
FundLlmDecisions(ticker) ==
    {Decision("hold", 0, 0, NoOrder),
     Decision("buy", MaxQty, 95, NoOrder),
     Decision("buy", 1, 75, Order("model", "market", ticker, 1, "buy", NoneVal)),
     Decision("sell", 1, 75, NoOrder)}

FundLlmOutputs(asked) ==
    {d \in UNION {[S -> UNION {FundLlmDecisions(t) : t \in S}] : S \in SUBSET asked} :
        \A t \in DOMAIN d : d[t] \in FundLlmDecisions(t)}

\* The portfolios run_hedge_fund is called with: the one of main.py's
\* simulation branch (lines 271-274) and one as initialize_portfolio builds it.
FundPortfolios ==
    {[cash |-> 100000, positions |-> [t \in Tickers |-> 0]],
     [cash |-> 100000, buying_power |-> 200000,
      positions |-> [t \in {AllTickers[1]} |-> 2],
      cost_basis |-> [t \in {AllTickers[1]} |-> 30000]]}

\* Lines 215-220: the workflow has an execution node exactly when compiled
\* with execute_trades.
WorkflowHasExecution(live) == live

\* Mutant of AfterFailure: a ticker that fails ends the batch.
AfterFailureAborting(i, n) == n + 1

\* Lines 154-157: after a failed ticker the loop continues with the next one.
AfterFailure(i, n) == i + 1

\* backtester.py line 318: decisions.get(ticker, {"action": "hold", "quantity": 0})
DecisionOrHold(decisions, ticker) ==
    IF ticker \in DOMAIN decisions THEN decisions[ticker]
    ELSE [action |-> "hold", quantity |-> 0]

\* Lines 123-144: agent.invoke for the next ticker, with a fresh state.
FundInvoke ==
    /\ pc = "fund_loop"
    /\ fund_i <= Len(tickers)
    /\ LET ticker == tickers[fund_i]
       IN  /\ st_tickers' = <<ticker>>
           /\ portfolio' = [cash |-> fund_portfolio.cash,
                            positions |-> [t \in {ticker} |->
                                             GetOrZero(fund_portfolio.positions, t)]]
    /\ analyst_signals' = EmptyMap
    /\ trading_decisions' = EmptyMap
    /\ execution_results' = EmptyMap
    /\ has_execution_results' = FALSE
    /\ exec_i' = 1
    /\ current_prices' = EmptyMap
    /\ max_shares' = EmptyMap
    /\ signals_by_ticker' = EmptyMap
    /\ analysis_by_ticker' = EmptyMap
    /\ raised' = ""
    /\ pc' = "analysts"
    /\ UNCHANGED <<csc_signals, csc_result>>
    /\ UNCHANGED <<buffettVars, execute_trades, submitted, btVars, cycle_envelopes, tickers, fund_portfolio,
                   fund_i,
                   combined_decisions, combined_signals, combined_executions,
                   successful_tickers, failed_tickers>>

\* The analyst nodes: each selected analyst reports on the state's tickers.
AnalystsNode ==
    /\ pc = "analysts"
    /\ \E report \in [SelectedAgents -> [SeqToSet(st_tickers) -> AnalystSignals]] :
        analyst_signals' = report
    /\ pc' = "risk"
    /\ UNCHANGED <<buffettVars, execute_trades, raised, execVars, pmVars, btVars>>
    /\ UNCHANGED <<cycle_envelopes, tickers, fund_portfolio, fund_i, combined_decisions, combined_signals,
                   combined_executions, successful_tickers, failed_tickers>>

\* An analyst node raises: the exception leaves agent.invoke.
AnalystsRaise ==
    /\ pc = "analysts"
    /\ raised' = "analyst failed"
    /\ pc' = "raised"
    /\ UNCHANGED <<buffettVars, execute_trades, execVars, pmVars, btVars, fundVars>>

\* risk_management_agent: a ticker without price data, or whose analysis
\* raises, is skipped (lines 31-33, 74-76).
RiskNode ==
    /\ pc = "risk"
    /\ \E priced \in SUBSET SeqToSet(st_tickers) :
        \E closes \in [priced -> Prices] :
            analyst_signals' = Put(analyst_signals, "risk_management_agent",
                                   RiskAnalysis(portfolio, closes, execute_trades))
    /\ pc' = "pm"
    /\ UNCHANGED <<buffettVars, execute_trades, raised, execVars, pmVars, btVars>>
    /\ UNCHANGED <<cycle_envelopes, tickers, fund_portfolio, fund_i, combined_decisions, combined_signals,
                   combined_executions, successful_tickers, failed_tickers>>

\* portfolio_management_agent, the oracle answering (portfolio_manager.py lines 30-98).
PortfolioNode ==
    /\ pc = "pm"
    /\ current_prices' = PmCurrentPrices(analyst_signals, st_tickers)
    /\ max_shares' = PmMaxShares(analyst_signals, st_tickers)
    /\ signals_by_ticker' = PmSignalsByTicker(analyst_signals, st_tickers)
    /\ analysis_by_ticker' =
         AnalysisByTicker(PmSignalsByTicker(analyst_signals, st_tickers), portfolio,
                          PmCurrentPrices(analyst_signals, st_tickers),
                          PmMaxShares(analyst_signals, st_tickers))
    /\ UNCHANGED <<csc_signals, csc_result>>
    /\ \E llm \in FundLlmOutputs(SeqToSet(st_tickers)) :
        trading_decisions' =
            GenerateTradingDecision(llm, PmCurrentPrices(analyst_signals, st_tickers),
                                    execute_trades)
    /\ pc' = IF WorkflowHasExecution(execute_trades) THEN "exec_start" ELSE "end"
    /\ UNCHANGED <<buffettVars, execute_trades, raised, st_tickers, portfolio, btVars, fundVars>>
    /\ UNCHANGED <<execution_results, has_execution_results, exec_i, submitted>>

\* portfolio_management_agent, generate_trading_decision raising ValueError
\* (portfolio_manager.py lines 343-346).
PortfolioRaises ==
    /\ pc = "pm"
    /\ current_prices' = PmCurrentPrices(analyst_signals, st_tickers)
    /\ max_shares' = PmMaxShares(analyst_signals, st_tickers)
    /\ signals_by_ticker' = PmSignalsByTicker(analyst_signals, st_tickers)
    /\ raised' = ValueErrorText
    /\ pc' = "raised"
    /\ UNCHANGED <<analysis_by_ticker, csc_signals, csc_result>>
    /\ UNCHANGED <<buffettVars, execute_trades, st_tickers, portfolio, execVars, btVars, fundVars>>

\* main.py lines 146-152: the results of a ticker whose invoke returned.
FundCollect ==
    /\ pc = "end"
    /\ combined_decisions' = Update(combined_decisions, trading_decisions)
    /\ combined_signals' = Update(combined_signals, analyst_signals)
    /\ combined_executions' =
         IF execute_trades /\ has_execution_results
         THEN Update(combined_executions, execution_results)
         ELSE combined_executions
    /\ successful_tickers' = Append(successful_tickers, tickers[fund_i])
    /\ cycle_envelopes' =
         IF "risk_management_agent" \in DOMAIN analyst_signals
         THEN Update(cycle_envelopes, analyst_signals["risk_management_agent"])
         ELSE cycle_envelopes
    /\ fund_i' = fund_i + 1
    /\ pc' = "fund_loop"
    /\ UNCHANGED <<buffettVars, execute_trades, raised, execVars, pmVars, btVars>>
    /\ UNCHANGED <<tickers, fund_portfolio, failed_tickers, analyst_signals>>

\* Lines 154-157: the except clause around one ticker's invoke.
FundExcept ==
    /\ pc = "raised"
    /\ failed_tickers' = Put(failed_tickers, tickers[fund_i], raised)
    /\ fund_i' = AfterFailure(fund_i, Len(tickers))
    /\ pc' = "fund_loop"
    /\ UNCHANGED <<buffettVars, execute_trades, raised, execVars, pmVars, btVars>>
    /\ UNCHANGED <<cycle_envelopes, tickers, fund_portfolio, combined_decisions, combined_signals,
                   combined_executions, successful_tickers, analyst_signals>>

\* Lines 159-175: the loop is over, the combined results are returned.
FundReturn ==
    /\ pc = "fund_loop"
    /\ fund_i > Len(tickers)
    /\ pc' = "returned"
    /\ UNCHANGED <<buffettVars, execute_trades, raised, execVars, pmVars, btVars, fundVars>>

\* Lines 107-121.
InitFund ==
    /\ BuffettIdle
    /\ pc = "fund_loop"
    /\ execute_trades \in BOOLEAN
    /\ \E n \in 0..MaxCycleTickers : tickers = SubSeq(AllTickers, 1, n)
    /\ fund_portfolio \in FundPortfolios
    /\ fund_i = 1
    /\ combined_decisions = EmptyMap
    /\ combined_signals = EmptyMap
    /\ combined_executions = EmptyMap
    /\ successful_tickers = <<>>
    /\ failed_tickers = EmptyMap
    /\ analyst_signals = EmptyMap
    /\ cycle_envelopes = EmptyMap
    /\ raised = ""
    /\ trading_decisions = EmptyMap
    /\ execution_results = EmptyMap
    /\ has_execution_results = FALSE
    /\ exec_i = 1
    /\ submitted = <<>>
    /\ st_tickers = <<>>
    /\ portfolio = [cash |-> 0, positions |-> EmptyMap]
    /\ current_prices = EmptyMap
    /\ max_shares = EmptyMap
    /\ signals_by_ticker = EmptyMap
    /\ analysis_by_ticker = EmptyMap
    /\ CscIdle
    /\ BtIdle

NextFund ==
    \/ FundInvoke
    \/ AnalystsNode
    \/ AnalystsRaise
    \/ RiskNode
    \/ PortfolioNode
    \/ PortfolioRaises
    \/ ExecEnter
    \/ ExecIterate
    \/ ExecFinish
    \/ FundCollect
    \/ FundExcept
    \/ FundReturn

SpecFund == InitFund /\ [][NextFund]_vars

----------------------------------------------------------------------------
(* Properties of run_hedge_fund *)

\* What holds of the tickers that failed, in every state.
FailedTickersSetAside ==
    /\ \A t \in DOMAIN failed_tickers :
        /\ failed_tickers[t] \in {"analyst failed", "Error generating trading decisions"}
        /\ t \notin DOMAIN combined_decisions
        /\ t \notin DOMAIN combined_executions
        /\ DecisionOrHold(combined_decisions, t).action = "hold"
        /\ \A k \in 1..Len(submitted) : submitted[k].ticker # t
    /\ pc = "returned" =>
        /\ SeqToSet(tickers) = (DOMAIN failed_tickers) \cup SeqToSet(successful_tickers)
        /\ DOMAIN combined_decisions \subseteq SeqToSet(successful_tickers)

\* What a step of a failing ticker does: the steps of its pipeline and the
\* except clause leave the decisions and execution results collected so far
\* as they are, the except clause records the exception's text for the ticker
\* and the loop goes on with the next ticker.
FailedTickerStep ==
    /\ pc # "end" =>
        /\ combined_decisions' = combined_decisions
        /\ combined_executions' = combined_executions
    /\ pc = "raised" =>
        /\ failed_tickers' = [t \in (DOMAIN failed_tickers) \cup {tickers[fund_i]} |->
                                IF t = tickers[fund_i] THEN raised ELSE failed_tickers[t]]
        /\ successful_tickers' = successful_tickers
        /\ fund_i' = fund_i + 1
        /\ pc' = "fund_loop"

\* C2: a ticker whose pipeline raises is recorded in failed_tickers with the
\* error text, has no decision in the cycle's output (so it resolves to hold)
\* and no execution result, changes nothing collected for the other tickers,
\* and every remaining ticker is still processed.
FailedTickerIsolated == []FailedTickersSetAside /\ [][FailedTickerStep]_vars

\* C2 witness: the cycle returned; its first ticker failed and its second
\* one was processed and has a buy decision in the output.
SecondTickerProcessedAfterFailure ==
    /\ pc = "returned"
    /\ Len(tickers) = 2
    /\ tickers[1] \in DOMAIN failed_tickers
    /\ failed_tickers[tickers[1]] = "Error generating trading decisions"
    /\ successful_tickers = <<tickers[2]>>
    /\ tickers[2] \in DOMAIN combined_decisions
    /\ combined_decisions[tickers[2]].action = "buy"

\* C8 as stated: when execute_trades is false no decision that has left
\* generate_trading_decision carries an order, and the broker's submit_order
\* is never called.
NoOrderWhenNotLive ==
    ~execute_trades =>
        /\ \A t \in DOMAIN trading_decisions : trading_decisions[t].order = NoOrder
        /\ \A t \in DOMAIN combined_decisions : combined_decisions[t].order = NoOrder
        /\ submitted = <<>>

\* The part of C8 about the broker: when execute_trades is false
\* submit_order is never called.
NoSubmitWhenNotLive == ~execute_trades => submitted = <<>>

\* Number of tickers of the live cycle of SpecCycle.
CycleTickers == 6

\* The live cycles SpecCycle follows: the first ticker goes any way; from the
\* second ticker on every analyst is bullish, the last close is 100.00 and
\* the oracle decides to buy one share.
CycleFocus ==
    (fund_i > 1 /\ pc \notin {"fund_loop", "returned"}) =>
        /\ raised = ""
        /\ \A a \in DOMAIN analyst_signals : \A t \in DOMAIN analyst_signals[a] :
             IF a = "risk_management_agent"
             THEN analyst_signals[a][t].current_price = 10000
             ELSE analyst_signals[a][t].signal = "bullish"
        /\ "risk_management_agent" \in DOMAIN analyst_signals =>
             DOMAIN analyst_signals["risk_management_agent"] = SeqToSet(st_tickers)
        /\ pc \in {"exec_start", "exec_loop", "end"} =>
             DOMAIN trading_decisions = SeqToSet(st_tickers)
        /\ \A t \in DOMAIN trading_decisions :
             trading_decisions[t].action = "buy" /\ trading_decisions[t].quantity = 1

\* A live cycle over six tickers, with 500.00 of cash.
InitCycle ==
    /\ BuffettIdle
    /\ pc = "fund_loop"
    /\ execute_trades = TRUE
    /\ tickers = SubSeq(AllTickers, 1, CycleTickers)
    /\ fund_portfolio = [cash |-> 50000, positions |-> [t \in SeqToSet(tickers) |-> 0]]
    /\ fund_i = 1
    /\ combined_decisions = EmptyMap
    /\ combined_signals = EmptyMap
    /\ combined_executions = EmptyMap
    /\ successful_tickers = <<>>
    /\ failed_tickers = EmptyMap
    /\ analyst_signals = EmptyMap
    /\ cycle_envelopes = EmptyMap
    /\ raised = ""
    /\ trading_decisions = EmptyMap
    /\ execution_results = EmptyMap
    /\ has_execution_results = FALSE
    /\ exec_i = 1
    /\ submitted = <<>>
    /\ st_tickers = <<>>
    /\ portfolio = [cash |-> 0, positions |-> EmptyMap]
    /\ current_prices = EmptyMap
    /\ max_shares = EmptyMap
    /\ signals_by_ticker = EmptyMap
    /\ analysis_by_ticker = EmptyMap
    /\ CscIdle
    /\ BtIdle

\* The steps of run_hedge_fund that stay within CycleFocus.
NextCycle ==
    \/ FundInvoke /\ CycleFocus'
    \/ AnalystsNode /\ CycleFocus'
    \/ AnalystsRaise /\ CycleFocus'
    \/ RiskNode /\ CycleFocus'
    \/ PortfolioNode /\ CycleFocus'
    \/ PortfolioRaises /\ CycleFocus'
    \/ ExecEnter /\ CycleFocus'
    \/ ExecIterate /\ CycleFocus'
    \/ ExecFinish /\ CycleFocus'
    \/ FundCollect /\ CycleFocus'
    \/ FundExcept /\ CycleFocus'
    \/ FundReturn /\ CycleFocus'

SpecCycle == InitCycle /\ [][NextCycle]_vars

\* The tickers of the cycle whose decision is a buy with an order.
CycleBuys ==
    {t \in DOMAIN combined_decisions :
        combined_decisions[t].action = "buy" /\ combined_decisions[t].order # NoOrder}

CycleDecision(t) ==
    IF t \in DOMAIN trading_decisions THEN trading_decisions[t] ELSE combined_decisions[t]

EnvelopeFromCallersPortfolio ==
    (pc = "pm" /\ tickers # <<>> /\ "risk_management_agent" \in DOMAIN analyst_signals) =>
        \A t \in DOMAIN analyst_signals["risk_management_agent"] :
            LET envelope == analyst_signals["risk_management_agent"][t]
            IN  envelope = RiskEnvelope(fund_portfolio, t, envelope.current_price, execute_trades)

\* C30 as stated: the analyst_signals run_hedge_fund collects hold, for every
\* analyst, the signal of every ticker processed successfully so far; a later
\* ticker's merge removes none.
CollectedSignalsKeepEveryTicker ==
    pc \in {"fund_loop", "returned"} =>
        \A k \in 1..Len(successful_tickers) : \A agent \in SelectedAgents :
            /\ agent \in DOMAIN combined_signals
            /\ successful_tickers[k] \in DOMAIN combined_signals[agent]

----------------------------------------------------------------------------
(* risk_management_agent followed by portfolio_management_agent, on any     *)
(* state of the workflow                                                    *)

\* state["data"]["portfolio"]: cost_basis and buying_power are optional keys.
\* With 10000.00 of cost basis in another ticker the cash is the smaller of
\* the two limits.
ManagePortfolios ==
    LET base == {[cash |-> c, positions |-> [t \in {AllTickers[1]} |-> n]] :
                    c \in {0, 100000}, n \in {0, 2}}
        bases == {AllTickers[1] :> 30000,
                  (AllTickers[1] :> 0) @@ (AllTickers[2] :> 1000000)}
        withBasis == base \cup {p @@ [cost_basis |-> b] : p \in base, b \in bases}
    IN  withBasis \cup {p @@ [buying_power |-> bp] : p \in withBasis, bp \in {10000, 200000}}

\* What the analyst node has reported for the ticker.
ManageSignals ==
    {[signal |-> "bullish", confidence |-> 85], [signal |-> "bearish", confidence |-> 85],
     [signal |-> "bearish", confidence |-> 65]}

InitManage ==
    /\ BuffettIdle
    /\ pc = "risk"
    /\ execute_trades \in BOOLEAN
    /\ st_tickers = <<AllTickers[1]>>
    /\ portfolio \in ManagePortfolios
    /\ analyst_signals \in [SelectedAgents -> [SeqToSet(st_tickers) -> ManageSignals]]
    /\ trading_decisions = EmptyMap
    /\ execution_results = EmptyMap
    /\ has_execution_results = FALSE
    /\ exec_i = 1
    /\ submitted = <<>>
    /\ raised = ""
    /\ current_prices = EmptyMap
    /\ max_shares = EmptyMap
    /\ signals_by_ticker = EmptyMap
    /\ analysis_by_ticker = EmptyMap
    /\ CscIdle
    /\ BtIdle
    /\ tickers = <<>>
    /\ fund_portfolio = [cash |-> 0]
    /\ fund_i = 1
    /\ combined_decisions = <<>>
    /\ combined_signals = <<>>
    /\ combined_executions = <<>>
    /\ successful_tickers = <<>>
    /\ failed_tickers = <<>>
    /\ cycle_envelopes = <<>>

NextManage == RiskNode \/ PortfolioNode \/ PortfolioRaises

SpecManage == InitManage /\ [][NextManage]_vars

----------------------------------------------------------------------------
(* Properties of risk_management_agent and portfolio_management_agent *)

\* risk_management_agent has written its analysis into the state.
RiskAnalysisWritten == "risk_management_agent" \in DOMAIN analyst_signals

\* portfolio_management_agent has returned.
PortfolioManagerReturned == RiskAnalysisWritten /\ pc \notin {"risk", "pm", "raised"}

\* C11 as stated: a ticker without price data gets no risk envelope, and no
\* trading decision (hence no order) is made for it in the cycle.
NoDecisionWithoutPriceData ==
    RiskAnalysisWritten =>
        \A t \in SeqToSet(st_tickers) :
            t \notin DOMAIN analyst_signals["risk_management_agent"] =>
                t \notin DOMAIN trading_decisions

\* C12: for each ticker with price data the remaining_position_limit of the
\* envelope is min(max_position - cost_basis[ticker], cash), where
\* max_position is 20% of (cash + the sum of all cost_basis values), and in
\* live mode the smaller of that and 95% of the buying power (the cash when
\* the portfolio has no buying_power).  All amounts times 100.
RemainingLimitFormula ==
    RiskAnalysisWritten =>
        \A t \in DOMAIN analyst_signals["risk_management_agent"] :
            LET cb == IF "cost_basis" \in DOMAIN portfolio THEN portfolio.cost_basis ELSE <<>>
                total == portfolio.cash + SumOver(cb, DOMAIN cb)
                power == IF "buying_power" \in DOMAIN portfolio
                         THEN portfolio.buying_power ELSE portfolio.cash
                position100 == IF execute_trades /\ 95 * power < 20 * total
                               THEN 95 * power ELSE 20 * total
                remaining100 == position100 - 100 * (IF t \in DOMAIN cb THEN cb[t] ELSE 0)
                limit100 == IF 100 * portfolio.cash < remaining100
                            THEN 100 * portfolio.cash ELSE remaining100
                limit == analyst_signals["risk_management_agent"][t].remaining_position_limit
            IN  /\ t \in SeqToSet(st_tickers)
                /\ 100 * limit[1] = limit100 * limit[2]
                /\ limit[2] > 0

\* C12 witness: live mode, cash 1000.00, buying power 100.00, no cost basis:
\* the limit is 95.00, 95% of the buying power.
LimitCappedByBuyingPower ==
    /\ RiskAnalysisWritten
    /\ execute_trades
    /\ portfolio.cash = 100000
    /\ "cost_basis" \notin DOMAIN portfolio
    /\ "buying_power" \in DOMAIN portfolio /\ portfolio.buying_power = 10000
    /\ \E t \in DOMAIN analyst_signals["risk_management_agent"] :
        analyst_signals["risk_management_agent"][t].remaining_position_limit = <<9500, 1>>

\* C13 as stated: in every envelope, and for the max_shares recomputed by
\* portfolio_management_agent, max_shares is the floor of
\* remaining_position_limit / current_price when current_price > 0 and 0
\* otherwise, so max_shares * current_price <= remaining_position_limit.
MaxSharesIsFloor ==
    RiskAnalysisWritten =>
        \A t \in DOMAIN analyst_signals["risk_management_agent"] :
            LET e == analyst_signals["risk_management_agent"][t]
                limit == e.remaining_position_limit
                floor == limit[1] \div (limit[2] * e.current_price)
            IN  /\ e.current_price > 0 =>
                     /\ e.max_shares = floor
                     /\ e.max_shares * e.current_price * limit[2] <= limit[1]
                     /\ t \in DOMAIN max_shares =>
                          /\ max_shares[t] = floor
                          /\ max_shares[t] * e.current_price * limit[2] <= limit[1]
                /\ e.current_price <= 0 =>
                     /\ e.max_shares = 0
                     /\ t \in DOMAIN max_shares => max_shares[t] = 0

\* The share of the base quantity the tier of a confidence stands for, in
\* percent: the tiers of a new long position, of the sale of a position
\* held, and of a new short position.
BuyTierPercent(c) ==
    IF FracLess(<<90, 1>>, c) THEN 100
    ELSE IF ~FracLess(c, <<80, 1>>) THEN 75
    ELSE IF ~FracLess(c, <<70, 1>>) THEN 50 ELSE 25

SellTierPercent(c) ==
    IF FracLess(<<95, 1>>, c) THEN 100
    ELSE IF ~FracLess(c, <<90, 1>>) THEN 75
    ELSE IF ~FracLess(c, <<80, 1>>) THEN 50 ELSE 25

ShortTierPercent(c) ==
    IF ~FracLess(c, <<90, 1>>) THEN 75
    ELSE IF ~FracLess(c, <<80, 1>>) THEN 50 ELSE 25

\* The tickers that have price data and for which a decision was made.
DecidedTickers ==
    {t \in (DOMAIN analysis_by_ticker) \cap (DOMAIN trading_decisions) :
        analysis_by_ticker[t].current_price > 0}

\* The decision for ticker t has the action and is sized as percent% of base.
DecidedTier(t, action, percent, base) ==
    /\ trading_decisions[t].action = action
    /\ Abs(100 * trading_decisions[t].quantity - percent * base) < 100

\* The decision for ticker t is hold with quantity 0.
DecidedHold(t) ==
    /\ trading_decisions[t].action = "hold"
    /\ trading_decisions[t].quantity = 0

\* C14 as stated: with no position, a bullish direction with confidence > 60
\* gives a buy of the tiered fraction of max_shares (60-70 25%, 70-80 50%,
\* 80-90 75%, above 90 100%), and a bullish confidence <= 60 gives hold, 0.
\* Stated of the decisions made for tickers that have price data, and for
\* the buy of a ticker whose max_shares is positive.
BullishBuyTiered ==
    PortfolioManagerReturned =>
        \A t \in DecidedTickers :
            LET a == analysis_by_ticker[t]
            IN  (a.current_position = 0 /\ a.direction = "bullish") =>
                    /\ (FracLess(<<60, 1>>, a.confidence) /\ a.max_shares > 0) =>
                         DecidedTier(t, "buy", BuyTierPercent(a.confidence), a.max_shares)
                    /\ ~FracLess(<<60, 1>>, a.confidence) => DecidedHold(t)

\* C15 as stated: with a position held, a bearish direction with confidence
\* >= 70 gives a sell of the tiered fraction of the shares held (70-80 25%,
\* 80-90 50%, 90-95 75%, above 95 100%), and a confidence <= 40 gives a sell
\* whatever the direction.  Stated of the decisions made for tickers that
\* have price data.
SellHeldTiered ==
    PortfolioManagerReturned =>
        \A t \in DecidedTickers :
            LET a == analysis_by_ticker[t]
            IN  a.current_position > 0 =>
                    /\ (a.direction = "bearish" /\ ~FracLess(a.confidence, <<70, 1>>)) =>
                         DecidedTier(t, "sell", SellTierPercent(a.confidence),
                                     a.current_position)
                    /\ ~FracLess(<<40, 1>>, a.confidence) =>
                         /\ trading_decisions[t].action = "sell"
                         /\ trading_decisions[t].quantity \in 1..a.current_position

\* C16 as stated: with no position and a bearish direction, a confidence
\* >= 70 gives a sell of the tiered fraction of max_shares (70-80 25%, 80-90
\* 50%, 90-100 75%) and a confidence < 70 gives hold, 0.  Stated of the
\* decisions made for tickers that have price data, and for the short of a
\* ticker whose max_shares is positive.
ShortOpenTiered ==
    PortfolioManagerReturned =>
        \A t \in DecidedTickers :
            LET a == analysis_by_ticker[t]
            IN  (a.current_position = 0 /\ a.direction = "bearish") =>
                    /\ (~FracLess(a.confidence, <<70, 1>>) /\ a.max_shares > 0) =>
                         DecidedTier(t, "sell", ShortTierPercent(a.confidence), a.max_shares)
                    /\ FracLess(a.confidence, <<70, 1>>) => DecidedHold(t)

====
